---- MODULE Spec2Model ----
(***************************************************************************)
(* Model of eolearn/core/extra/ray_executor.py: the RayExecutor adapter    *)
(* that dispatches workflow executions to a Ray cluster.                   *)
(*                                                                         *)
(* The adapter's code is one sequential thread (module load, run,          *)
(* _get_processing_type, _run_execution with its progress generator).      *)
(* The Ray cluster is its environment: it resolves or stalls the submitted *)
(* tasks concurrently with the adapter.                                    *)
(***************************************************************************)
EXTENDS Integers, Sequences, FiniteSets, TLC

\* Largest number of argument bundles an executor is constructed with.
MaxBundles == 3

\* Largest number of bundles in the executions checked for termination.
MaxFairBundles == 2

\* The opaque per-workflow argument bundles.
Bundles == {"a", "b"}

\* Values of the workers argument a caller may pass to _get_processing_type.
WorkerArgs == {"None", "1", "4"}

RECURSIVE SeqsUpTo(_, _)
SeqsUpTo(S, n) ==
    IF n = 0 THEN {<<>>}
    ELSE LET shorter == SeqsUpTo(S, n - 1)
         IN  shorter \cup {Append(s, x) : s \in {t \in shorter : Len(t) = n - 1}, x \in S}

Range(s) == {s[i] : i \in 1..Len(s)}

\* Python values the adapter hands around.
None == <<"None">>
PyList(items) == <<"list", items>>
PyRaise(exc) == <<"raise", exc>>
Pending == <<>>

VARIABLES
    rayInstalled,     \* environment: is the ray package importable
    execution_args,   \* bundles the executor was constructed with
    pc,               \* position of the adapter's thread
    return_results,   \* argument of RayExecutor.run
    baseCall,         \* keyword arguments RayExecutor.run passes to super().run
    processing_type,  \* tag the base run obtained from _get_processing_type
    lastQuery,        \* <<workers, multiprocess, tag>> of the latest direct query
    processing_args,  \* argument of _run_execution
    futures,          \* _run_execution's local list of object refs
    working,          \* progress_bar_iterator's own binding of futures
    done,             \* the list of ready refs the latest ray.wait returned
    total,            \* tqdm's total
    ticks,            \* progress ticks emitted by tqdm
    events,           \* calls made to the cluster runtime and ticks, in order
    getArg,           \* the list handed to ray.get
    execOutcome,      \* what _run_execution returned or raised
    retval,           \* what RayExecutor.run returned or raised
    tasks,            \* cluster: tasks[f] is the bundle of the task behind ref f
    store,            \* cluster: store[f] is the value of ref f, Pending if none
    hung,             \* cluster: refs whose task will never finish
    reported          \* history: refs the runtime returned as ready from ray.wait

progVars == <<pc, return_results, baseCall, processing_type, processing_args,
              futures, working, done, total, ticks, events, getArg,
              execOutcome, retval, reported>>
clusterVars == <<tasks, store, hung>>
vars == <<rayInstalled, execution_args, progVars, lastQuery, clusterVars>>

Init ==
    /\ rayInstalled \in BOOLEAN
    /\ execution_args \in SeqsUpTo(Bundles, MaxBundles)
    /\ pc = "unloaded"
    /\ return_results = FALSE
    /\ baseCall = [workers |-> "unset", multiprocess |-> FALSE, return_results |-> FALSE]
    /\ processing_type = "unset"
    /\ lastQuery = <<"None", FALSE, "none">>
    /\ processing_args = <<>>
    /\ futures = <<>>
    /\ working = <<>>
    /\ done = <<>>
    /\ total = 0
    /\ ticks = 0
    /\ events = <<>>
    /\ getArg = <<>>
    /\ execOutcome = Pending
    /\ retval = Pending
    /\ tasks = <<>>
    /\ store = <<>>
    /\ hung = {}
    /\ reported = {}

----------------------------------------------------------------------------
(* Module load: the import guard of lines 4-7.                              *)

ImportOutcomeDeferred(installed) == "loaded"

ImportOutcome(installed) == IF installed THEN "loaded" ELSE "import_error"

LoadModule ==
    /\ pc = "unloaded"
    /\ pc' = ImportOutcome(rayInstalled)
    /\ UNCHANGED <<rayInstalled, execution_args, return_results, baseCall,
                   processing_type, processing_args, futures, working, done,
                   total, ticks, events, getArg, execOutcome, retval, reported,
                   lastQuery, clusterVars>>

----------------------------------------------------------------------------
(* RayExecutor.run and the base executor's run routine around it.           *)

RunCallArgsFlagDropped(flag) ==
    [workers |-> "None", multiprocess |-> TRUE, return_results |-> FALSE]

RunCallArgs(flag) ==
    [workers |-> "None", multiprocess |-> TRUE, return_results |-> flag]

Run(flag) ==
    /\ pc = "loaded"
    /\ return_results' = flag
    /\ baseCall' = RunCallArgs(flag)
    /\ pc' = "base_run"
    /\ UNCHANGED <<rayInstalled, execution_args, processing_type,
                   processing_args, futures, working, done, total, ticks,
                   events, getArg, execOutcome, retval, reported, lastQuery,
                   clusterVars>>

ProcessingTypeByArgs(workers, multiprocess) ==
    IF workers = "1" THEN "SINGLE_PROCESS"
    ELSE IF multiprocess THEN "MULTI_PROCESS" ELSE "MULTI_THREAD"

ProcessingType(workers, multiprocess) == "RAY"

\* A direct call of the static method, outside a running execution.
GetProcessingType(workers, multiprocess) ==
    /\ pc \in {"loaded", "returned", "raised"}
    /\ lastQuery' = <<workers, multiprocess, ProcessingType(workers, multiprocess)>>
    /\ UNCHANGED <<rayInstalled, execution_args, progVars, clusterVars>>

\* Base run, first half: classify the backend, build the bundles and call
\* _run_execution with them.
BaseRunStart ==
    /\ pc = "base_run"
    /\ processing_type' = ProcessingType(baseCall.workers, baseCall.multiprocess)
    /\ processing_args' = execution_args
    /\ pc' = "submit"
    /\ UNCHANGED <<rayInstalled, execution_args, return_results, baseCall,
                   futures, working, done, total, ticks, events, getArg,
                   execOutcome, retval, reported, lastQuery, clusterVars>>

\* Base run, second half: an exception of _run_execution propagates, a list
\* is returned only when results were asked for.
BaseRunFinish ==
    /\ pc = "exec_done"
    /\ retval' = IF execOutcome[1] = "raise" THEN execOutcome
                 ELSE IF baseCall.return_results THEN execOutcome ELSE None
    /\ pc' = IF execOutcome[1] = "raise" THEN "raised" ELSE "returned"
    /\ UNCHANGED <<rayInstalled, execution_args, return_results, baseCall,
                   processing_type, processing_args, futures, working, done,
                   total, ticks, events, getArg, execOutcome, reported,
                   lastQuery, clusterVars>>

----------------------------------------------------------------------------
(* The cluster runtime.                                                     *)

\* What the shared workflow-execution function returns for a bundle.
ExecuteWorkflow(bundle) == <<"WorkflowResults", bundle>>

\* What the runtime stores for a task that failed remotely.
TaskError(bundle) == <<"RayTaskError", bundle>>

IsError(value) == value # Pending /\ value[1] = "RayTaskError"

\* The task behind ref f finishes, with a result or with a failure.
Resolve(f) ==
    /\ f \in 1..Len(tasks)
    /\ store[f] = Pending
    /\ f \notin hung
    /\ \E ok \in BOOLEAN :
          store' = [store EXCEPT ![f] = IF ok THEN ExecuteWorkflow(tasks[f])
                                       ELSE TaskError(tasks[f])]
    /\ UNCHANGED <<rayInstalled, execution_args, progVars, lastQuery, tasks, hung>>

\* The task behind ref f stalls for good.
Hang(f) ==
    /\ f \in 1..Len(tasks)
    /\ store[f] = Pending
    /\ f \notin hung
    /\ hung' = hung \cup {f}
    /\ UNCHANGED <<rayInstalled, execution_args, progVars, lastQuery, tasks, store>>

\* ray.get on a list of resolved refs: the values in the order of the list,
\* or the error of the first ref of the list that holds one.
RayGet(refs) ==
    LET bad == {i \in 1..Len(refs) : IsError(store[refs[i]])}
    IN  IF bad # {}
        THEN PyRaise(store[refs[CHOOSE i \in bad : \A j \in bad : i <= j]])
        ELSE PyList([i \in 1..Len(refs) |-> store[refs[i]]])

----------------------------------------------------------------------------
(* RayExecutor._run_execution, lines 32-47.                                 *)

AppendFutureFront(refs, f) == <<f>> \o refs

\* Line 36: the list comprehension collects the refs in submission order.
AppendFuture(refs, f) == Append(refs, f)

\* Line 36, one iteration: submit the task of the next bundle.
Submit ==
    /\ pc = "submit"
    /\ Len(futures) < Len(processing_args)
    /\ LET i == Len(futures) + 1
           f == Len(tasks) + 1
       IN  /\ tasks' = Append(tasks, processing_args[i])
           /\ store' = Append(store, Pending)
           /\ futures' = AppendFuture(futures, f)
    /\ events' = Append(events, "submit")
    /\ UNCHANGED <<rayInstalled, execution_args, pc, return_results, baseCall,
                   processing_type, processing_args, working, done, total,
                   ticks, getArg, execOutcome, retval, reported, lastQuery, hung>>

SubmissionCompleteEarly(refs, args) == Len(refs) >= 1 \/ Len(args) = 0

\* Line 36: the comprehension ends when every bundle has been iterated.
SubmissionComplete(refs, args) == Len(refs) = Len(args)

\* Line 44: the generator is created over futures and tqdm gets its total.
StartProgress ==
    /\ pc = "submit"
    /\ SubmissionComplete(futures, processing_args)
    /\ working' = futures
    /\ total' = Len(futures)
    /\ pc' = "loop"
    /\ UNCHANGED <<rayInstalled, execution_args, return_results, baseCall,
                   processing_type, processing_args, futures, done, ticks,
                   events, getArg, execOutcome, retval, reported, lastQuery,
                   clusterVars>>

LoopConditionOffByOne(refs) == Len(refs) > 1

\* Line 40: while futures.
LoopCondition(refs) == refs # <<>>

\* Lines 40-41: test the working set; call ray.wait on it or end the generator.
LoopTest ==
    /\ pc = "loop"
    /\ IF LoopCondition(working)
       THEN /\ events' = Append(events, "wait")
            /\ pc' = "wait"
       ELSE /\ events' = events
            /\ pc' = "get"
    /\ UNCHANGED <<rayInstalled, execution_args, return_results, baseCall,
                   processing_type, processing_args, futures, working, done,
                   total, ticks, getArg, execOutcome, retval, reported,
                   lastQuery, clusterVars>>

WaitReadyAny(refs) == Range(refs)

\* The refs of the list that ray.wait may return as ready.
WaitReady(refs) == {f \in Range(refs) : store[f] # Pending}

RemainingTail(refs, ready) == Tail(refs)

\* The second list ray.wait returns: the refs not returned as ready, in the
\* order of the list it was given.
Remaining(refs, ready) == SelectSeq(refs, LAMBDA f : f \notin Range(ready))

\* Line 41: ray.wait(futures, num_returns=1) returns once a ref is ready;
\* the generator rebinds its futures to the remainder.
WaitReturn ==
    /\ pc = "wait"
    /\ \E f \in WaitReady(working) :
          /\ done' = <<f>>
          /\ working' = Remaining(working, <<f>>)
          /\ reported' = reported \cup {f}
    /\ pc' = "yield"
    /\ UNCHANGED <<rayInstalled, execution_args, return_results, baseCall,
                   processing_type, processing_args, futures, total, ticks,
                   events, getArg, execOutcome, retval, lastQuery, clusterVars>>

\* Lines 42, 44-45: the generator yields and tqdm counts the item.
Tick ==
    /\ pc = "yield"
    /\ ticks' = ticks + 1
    /\ events' = Append(events, "tick")
    /\ pc' = "loop"
    /\ UNCHANGED <<rayInstalled, execution_args, return_results, baseCall,
                   processing_type, processing_args, futures, working, done,
                   total, getArg, execOutcome, retval, reported, lastQuery,
                   clusterVars>>

GetArgumentWorking(outer, inner) == inner

\* Line 47: the name futures of _run_execution, not the generator's.
GetArgument(outer, inner) == outer

\* Line 47: ray.get is called.
GetCall ==
    /\ pc = "get"
    /\ getArg' = GetArgument(futures, working)
    /\ events' = Append(events, "get")
    /\ pc' = "get_wait"
    /\ UNCHANGED <<rayInstalled, execution_args, return_results, baseCall,
                   processing_type, processing_args, futures, working, done,
                   total, ticks, execOutcome, retval, reported, lastQuery,
                   clusterVars>>

ExecutionOutcomeCaught(refs) == PyList([i \in 1..Len(refs) |-> store[refs[i]]])

\* Line 47: whatever ray.get returns is returned, whatever it raises is raised.
ExecutionOutcome(refs) == RayGet(refs)

\* Line 47: ray.get returns once every ref of its list is resolved.
GetReturn ==
    /\ pc = "get_wait"
    /\ \A f \in Range(getArg) : store[f] # Pending
    /\ execOutcome' = ExecutionOutcome(getArg)
    /\ pc' = "exec_done"
    /\ UNCHANGED <<rayInstalled, execution_args, return_results, baseCall,
                   processing_type, processing_args, futures, working, done,
                   total, ticks, events, getArg, retval, reported, lastQuery,
                   clusterVars>>

----------------------------------------------------------------------------

ExecutionStep ==
    \/ Submit
    \/ StartProgress
    \/ LoopTest
    \/ WaitReturn
    \/ Tick
    \/ GetCall
    \/ GetReturn

Next ==
    \/ LoadModule
    \/ \E flag \in BOOLEAN : Run(flag)
    \/ \E w \in WorkerArgs, m \in BOOLEAN : GetProcessingType(w, m)
    \/ BaseRunStart
    \/ BaseRunFinish
    \/ Submit
    \/ StartProgress
    \/ LoopTest
    \/ WaitReturn
    \/ Tick
    \/ GetCall
    \/ GetReturn
    \/ \E f \in 1..MaxBundles : Resolve(f)
    \/ \E f \in 1..MaxBundles : Hang(f)

Spec == Init /\ [][Next]_vars

FairInit == Init /\ Len(execution_args) <= MaxFairBundles

\* The adapter's thread keeps running its code, and the cluster finishes
\* every task that has not stalled.
FairSpec ==
    /\ FairInit
    /\ [][Next]_vars
    /\ WF_vars(ExecutionStep)
    /\ \A f \in 1..MaxBundles : WF_vars(Resolve(f))

----------------------------------------------------------------------------
(* Properties.                                                              *)

InExecution == pc \in {"submit", "loop", "wait", "yield", "get", "get_wait"}

InLoop == pc \in {"loop", "wait", "yield"}

ExecutionOver == pc \in {"exec_done", "returned", "raised"}

Count(kind) == Cardinality({i \in 1..Len(events) : events[i] = kind})

NumBundles == Len(processing_args)

\* Position of the first ref of the list that holds a remote failure, 0 if none.
FirstFailed(refs) ==
    LET bad == {i \in 1..Len(refs) : IsError(store[refs[i]])}
    IN  IF bad = {} THEN 0 ELSE CHOOSE i \in bad : \A j \in bad : i <= j

\* C1: the list _run_execution returns has one entry per bundle, and entry i
\* is the value of the task submitted for bundle i, whatever the order in
\* which the cluster resolved the tasks.
ResultsInSubmissionOrder ==
    (ExecutionOver /\ execOutcome[1] = "list") =>
        /\ Len(execOutcome[2]) = NumBundles
        /\ \A i \in 1..NumBundles :
              /\ tasks[i] = processing_args[i]
              /\ execOutcome[2][i] = store[i]
              /\ execOutcome[2][i] = ExecuteWorkflow(processing_args[i])

\* C1 witness: a list was returned for distinct bundles although the first
\* submitted task was the last one ray.wait reported.
ResultsInSubmissionOrderWitness ==
    /\ pc = "exec_done"
    /\ execOutcome[1] = "list"
    /\ NumBundles = MaxBundles
    /\ processing_args[1] # processing_args[2]
    /\ done = <<1>>

\* C2: every tick directly follows a ray.wait call, each returned wait is
\* ticked once, a finished loop has made NumBundles waits and NumBundles
\* ticks, and with no bundle there is neither.
OneTickPerWait ==
    /\ ticks = Count("tick")
    /\ \A i \in 1..Len(events) :
          events[i] = "tick" => (i > 1 /\ events[i - 1] = "wait")
    /\ Count("wait") = ticks + (IF pc \in {"wait", "yield"} THEN 1 ELSE 0)
    /\ Cardinality(reported) = ticks + (IF pc = "yield" THEN 1 ELSE 0)
    /\ ticks <= NumBundles
    /\ (pc \in {"get", "get_wait"} \/ ExecutionOver) =>
          (ticks = NumBundles /\ Count("wait") = NumBundles /\ total = NumBundles)

\* C2 witness: the loop has finished after MaxBundles ticks.
OneTickPerWaitWitness ==
    pc = "get" /\ ticks = MaxBundles /\ Count("wait") = MaxBundles

\* C3: run passes workers=None, multiprocess=True and its flag to the base
\* run; when it returns it returns None if the flag is unset and a list with
\* one entry per submitted bundle if it is set.
RunReturnValue ==
    /\ pc \notin {"unloaded", "import_error", "loaded"} =>
          baseCall = [workers |-> "None", multiprocess |-> TRUE,
                      return_results |-> return_results]
    /\ pc = "returned" =>
          IF return_results
          THEN /\ retval[1] = "list"
               /\ Len(retval[2]) = Len(tasks)
               /\ Len(retval[2]) = Len(execution_args)
          ELSE retval = None

\* C3 witness: run returned a list for MaxBundles bundles.
RunReturnValueWitness ==
    pc = "returned" /\ return_results /\ retval[1] = "list"
        /\ Len(retval[2]) = MaxBundles

\* C4: _get_processing_type answers RAY for every argument combination, to
\* the base run and to a direct caller, and a direct query changes nothing
\* of the executor or of the cluster.
ClassificationFixed ==
    /\ [](lastQuery[3] \in {"none", "RAY"})
    /\ [](processing_type \in {"unset", "RAY"})
    /\ [](pc \notin {"unloaded", "import_error", "loaded", "base_run"}
            => processing_type = "RAY")
    /\ [][lastQuery' # lastQuery =>
            (lastQuery'[3] = "RAY" /\ UNCHANGED <<progVars, clusterVars>>)]_vars

\* C4 witness: a query with workers=1, multiprocess=False after a finished run.
ClassificationFixedWitness ==
    lastQuery = <<"1", FALSE, "RAY">> /\ pc = "returned"

\* C5: without the ray package the module never loads: nothing is run,
\* queried, submitted or awaited.
NoLoadWithoutRay ==
    ~rayInstalled =>
        /\ pc \in {"unloaded", "import_error"}
        /\ events = <<>>
        /\ tasks = <<>>
        /\ lastQuery[3] = "none"

\* C5 witness: the load failed.
NoLoadWithoutRayWitness == ~rayInstalled /\ pc = "import_error"

\* C6: the tasks the cluster received are the bundles, once each and in
\* order; and when a ref of futures holds a remote failure, the outcome of
\* _run_execution is that failure raised, not a list.
FailurePropagates ==
    /\ Len(tasks) <= NumBundles
    /\ Count("submit") = Len(tasks)
    /\ \A i \in 1..Len(tasks) : tasks[i] = processing_args[i]
    /\ (InExecution /\ pc # "submit") => Len(tasks) = NumBundles
    /\ ExecutionOver =>
          /\ Len(tasks) = NumBundles
          /\ IF FirstFailed(futures) = 0
             THEN execOutcome[1] = "list"
             ELSE execOutcome = PyRaise(store[futures[FirstFailed(futures)]])

\* C6 witness: an execution ended raising the failure of its second task
\* while its first task had succeeded.
FailurePropagatesWitness ==
    /\ pc = "exec_done"
    /\ execOutcome[1] = "raise"
    /\ Len(tasks) = MaxBundles
    /\ FirstFailed(futures) = 2

\* C7: in the order of the calls, no submission follows a wait, a tick or
\* the retrieval, nothing follows the retrieval, the first wait comes after
\* all NumBundles submissions, and the retrieval is called once, after
\* NumBundles waits and with an empty working set.
PhasesOrdered ==
    /\ \A i, j \in 1..Len(events) :
          i < j => /\ ~(events[i] # "submit" /\ events[j] = "submit")
                   /\ events[i] # "get"
    /\ Count("wait") > 0 => Count("submit") = NumBundles
    /\ Count("get") > 0 =>
          /\ Count("get") = 1
          /\ Count("submit") = NumBundles
          /\ Count("wait") = NumBundles
          /\ working = <<>>

\* C7 witness: the retrieval was called after MaxBundles submissions.
PhasesOrderedWitness ==
    pc = "get_wait" /\ Count("submit") = MaxBundles /\ Count("get") = 1

\* C9: while the loop drains its own binding, futures stays the list of all
\* NumBundles refs in submission order, and that list is what ray.get is
\* given.
FuturesUntouched ==
    /\ (InLoop \/ pc \in {"get", "get_wait"} \/ ExecutionOver) =>
          futures = [i \in 1..NumBundles |-> i]
    /\ (pc = "get_wait" \/ ExecutionOver) =>
          /\ getArg = futures
          /\ Len(getArg) = NumBundles
          /\ working = <<>>

\* C9 witness: ray.get was called with MaxBundles refs after the working
\* set was drained.
FuturesUntouchedWitness ==
    pc = "get_wait" /\ working = <<>> /\ Len(getArg) = MaxBundles

\* C10: the working set is a duplicate-free part of futures, made exactly of
\* the refs no wait has reported yet; reported refs are resolved; each wait
\* reports one ref; ticks and working set add up to NumBundles at the loop
\* test; and at the retrieval every ref has been reported.
WorkingSetInvariant ==
    (InLoop \/ pc \in {"get", "get_wait"} \/ ExecutionOver) =>
        /\ \A i, j \in 1..Len(working) : working[i] = working[j] => i = j
        /\ Range(working) \subseteq Range(futures)
        /\ Range(working) \cap reported = {}
        /\ Range(working) \cup reported = Range(futures)
        /\ \A f \in reported : store[f] # Pending
        /\ pc = "loop" => ticks + Len(working) = NumBundles
        /\ pc = "yield" => /\ Len(done) = 1
                           /\ done[1] \in reported
                           /\ ticks + 1 + Len(working) = NumBundles
        /\ (pc \in {"get", "get_wait"} \/ ExecutionOver) =>
              /\ reported = Range(futures)
              /\ Cardinality(reported) = NumBundles

\* C10 witness: at the loop test after one tick, the reported ref was not
\* the head of the list.
WorkingSetInvariantWitness ==
    /\ pc = "loop"
    /\ ticks = 1
    /\ Len(working) = MaxBundles - 1
    /\ working[1] = 1

LeavesLoop == InLoop /\ ~InLoop'

\* C8: under a fair cluster and a running adapter thread, an execution whose
\* tasks never stall ends; the drain loop is left only with an empty working
\* set; and once a submitted task has stalled and the loop is running, the
\* execution ends up blocked in ray.wait for ever.
DrainTermination ==
    /\ (InExecution ~> (ExecutionOver \/ hung # {}))
    /\ [][LeavesLoop => (working = <<>> /\ pc' = "get")]_vars
    /\ [](hung # {} => ~ExecutionOver /\ pc \notin {"get", "get_wait"})
    /\ ((hung # {} /\ pc = "loop") ~> [](pc = "wait"))

\* C8 witness: an execution of MaxFairBundles bundles, none of them stalled,
\* was drained and returned.
DrainTerminationWitness ==
    pc = "returned" /\ ticks = MaxFairBundles /\ hung = {}

\* The other case of C8 is reachable too: blocked in ray.wait on nothing but
\* stalled refs after another ref was drained.
BlockedOnStalled ==
    pc = "wait" /\ hung # {} /\ Range(working) \subseteq hung /\ ticks >= 1

====
